---- MODULE Spec2Model ----
(***************************************************************************)
(* Model of the baiser curve library: Bezier segments of degree 0..3, the  *)
(* adaptive length estimator, the smooth lookup table, the linear-speed    *)
(* wrapper and the composed curve.                                         *)
(*                                                                         *)
(* Scalars.  The library is generic over a Float scalar.  A scalar is      *)
(* modelled as an exact extended rational <<n, d>>: d > 0 and gcd(n,d) = 1 *)
(* for a finite value, <<1,0>> and <<-1,0>> for the two infinities and     *)
(* <<0,0>> for NaN, with the IEEE rules for the non-finite values (x/0,    *)
(* 0*inf, inf-inf, comparisons with NaN).  Rounding is not modelled: the   *)
(* arithmetic of finite values is exact.                                   *)
(*                                                                         *)
(* Points.  The point type is the library's own one-dimensional point      *)
(* (impl Point for f64, impl Distance for f64): a point is a scalar.       *)
(***************************************************************************)
EXTENDS Integers, Sequences, FiniteSets, TLC

\* ------------------------------------------------------------------ bounds
MaxCoord == 3       \* control point coordinates are the integers 0..MaxCoord
MaxDepth == 4       \* deepest recursion level of estimate_length that is explored
MaxPrecNum == 8     \* finite precisions are k/4 for k in 1..MaxPrecNum
MaxTable == 3       \* table_size (number of samples) is in 2..MaxTable
MaxSteps == 3       \* steps_count of new and of the iterators is in 1..MaxSteps
MaxSegments == 2    \* ComposedCurve: the builder stops at MaxSegments segments
MaxLines == 2       \* SmoothArray: at most MaxLines line calls are made on one table

\* ----------------------------------------------------------------- scalars
Abs(n) == IF n < 0 THEN -n ELSE n

Sgn(n) == IF n < 0 THEN -1 ELSE IF n > 0 THEN 1 ELSE 0

RECURSIVE GCD(_, _)
GCD(a, b) == IF b = 0 THEN a ELSE GCD(b, a % b)

Norm(n, d) ==
    IF d = 0 THEN <<Sgn(n), 0>>
    ELSE LET g == GCD(Abs(n), Abs(d))
             s == IF d < 0 THEN -1 ELSE 1
         IN  <<(s * n) \div g, (s * d) \div g>>

Zero == <<0, 1>>
One == <<1, 1>>
Inf == <<1, 0>>
NaN == <<0, 0>>
FromInt(n) == <<n, 1>>

IsNaN(a) == a = NaN
IsFinite(a) == a[2] # 0

FNeg(a) == <<-a[1], a[2]>>

\* finite values are added over the least common denominator, and multiplied
\* after cancelling across, so that intermediate integers stay small
FAdd(a, b) ==
    IF IsFinite(a) /\ IsFinite(b)
    THEN LET g == GCD(a[2], b[2])
         IN  Norm(a[1] * (b[2] \div g) + b[1] * (a[2] \div g), (a[2] \div g) * b[2])
    ELSE IF IsNaN(a) \/ IsNaN(b) THEN NaN
    ELSE IF ~IsFinite(a) /\ ~IsFinite(b) THEN (IF a = b THEN a ELSE NaN)
    ELSE IF ~IsFinite(a) THEN a ELSE b

FSub(a, b) == FAdd(a, FNeg(b))

FMul(a, b) ==
    IF IsFinite(a) /\ IsFinite(b)
    THEN LET g1 == GCD(Abs(a[1]), b[2])
             g2 == GCD(Abs(b[1]), a[2])
         IN  <<(a[1] \div g1) * (b[1] \div g2), (a[2] \div g2) * (b[2] \div g1)>>
    ELSE Norm(a[1] * b[1], a[2] * b[2])

FRecip(a) == IF a[1] < 0 THEN <<-a[2], -a[1]>> ELSE <<a[2], a[1]>>

FDiv(a, b) == FMul(a, FRecip(b))

FEq(a, b) == ~IsNaN(a) /\ ~IsNaN(b) /\ a = b

FLt(a, b) ==
    IF IsNaN(a) \/ IsNaN(b) THEN FALSE
    ELSE IF IsFinite(a) /\ IsFinite(b)
         THEN LET g == GCD(a[2], b[2]) IN a[1] * (b[2] \div g) < b[1] * (a[2] \div g)
    ELSE a # b /\ (a = FNeg(Inf) \/ b = Inf)

FLe(a, b) == FLt(a, b) \/ FEq(a, b)

FAbs(a) == <<Abs(a[1]), a[2]>>

\* f64::max / f64::min: a NaN operand is ignored
FMax(a, b) == IF IsNaN(a) THEN b ELSE IF IsNaN(b) THEN a ELSE IF FLt(a, b) THEN b ELSE a
FMin(a, b) == IF IsNaN(a) THEN b ELSE IF IsNaN(b) THEN a ELSE IF FLt(b, a) THEN b ELSE a

\* num_traits::clamp: NaN passes through
FClamp(a, lo, hi) == IF FLt(a, lo) THEN lo ELSE IF FLt(hi, a) THEN hi ELSE a

FFloor(a) == IF IsFinite(a) THEN <<a[1] \div a[2], 1>> ELSE a
FCeil(a) == FNeg(FFloor(FNeg(a)))
FTrunc(a) == IF FLt(a, Zero) THEN FCeil(a) ELSE FFloor(a)
FFract(a) == FSub(a, FTrunc(a))

\* to_usize(): None (modelled as -1) for NaN, the infinities and values <= -1
None == -1
ToUsize(a) == IF IsFinite(a) /\ FLt(FromInt(-1), a) THEN FTrunc(a)[1] ELSE None

\* ------------------------------------------------------------------ points
add(p, q) == FAdd(p, q)
sub(p, q) == FSub(p, q)
scale(p, s) == FMul(p, s)
distance(p, q) == FAbs(FSub(p, q))

\* ------------------------------------------------------- Bezier segments
\* A segment is the sequence of its control points: Bezier0 <<point>>,
\* Bezier1 <<p0, p1>>, Bezier2 <<p0, p1, p2>>, Bezier3 <<p0, p1, p2, p3>>;
\* the enum Bezier is the union of the four, its tag the length.
Two == FAdd(One, One)
Three == FAdd(FAdd(One, One), One)
Half == FDiv(One, FAdd(One, One))

Coords == {FromInt(n) : n \in 0..MaxCoord}
Bezier0s == {<<p>> : p \in Coords}
Bezier1s == {<<p0, p1>> : p0 \in Coords, p1 \in Coords}
Bezier2s == {<<p0, p1, p2>> : p0 \in Coords, p1 \in Coords, p2 \in Coords}
Bezier3s == {<<p0, p1, p2, p3>> : p0 \in Coords, p1 \in Coords, p2 \in Coords, p3 \in Coords}
Beziers == Bezier0s \cup Bezier1s \cup Bezier2s \cup Bezier3s

Bezier0_value_at(c, t) == c[1]

Bezier0_tangent_at(c, t) == scale(c[1], Zero)

\* faulty variant: the difference p1 - p0 is not taken
Bezier1_value_at_no_sub(c, t) == add(c[1], scale(c[2], t))

Bezier1_value_at(c, t) == add(c[1], scale(sub(c[2], c[1]), t))

Bezier1_tangent_at(c, t) == sub(c[2], c[1])

Bezier2_value_at(c, t) ==
    LET t2 == FMul(t, t)
        t1 == FSub(One, t)
        t12 == FMul(t1, t1)
    IN  add(add(scale(c[1], t12), scale(c[2], FMul(FMul(Two, t1), t))), scale(c[3], t2))

Bezier2_tangent_at(c, t) ==
    LET t2 == FAdd(t, t)
        nt2 == FSub(Two, t2)
        v1 == scale(sub(c[2], c[1]), nt2)
        v2 == scale(sub(c[3], c[2]), t2)
    IN  add(v1, v2)

Bezier3_value_at(c, t) ==
    LET t2 == FMul(t, t)
        t3 == FMul(t2, t)
        nt == FSub(One, t)
        nt2 == FMul(nt, nt)
        nt3 == FMul(nt2, nt)
    IN  add(add(scale(c[1], nt3), scale(c[2], FMul(FMul(Three, nt2), t))),
            add(scale(c[3], FMul(FMul(Three, nt), t2)), scale(c[4], t3)))

Bezier3_tangent_at(c, t) ==
    LET six == FAdd(Three, Three)
        t2 == FMul(t, t)
        nt == FSub(One, t)
        nt2 == FMul(nt, nt)
        v1 == scale(sub(c[2], c[1]), FMul(Three, nt2))
        v2 == scale(sub(c[3], c[2]), FMul(FMul(six, nt), t))
        v3 == scale(sub(c[4], c[3]), FMul(Three, t2))
    IN  add(add(v1, v2), v3)

\* impl Curve for Bezier: dispatch on the variant
Bezier_value_at(c, t) ==
    CASE Len(c) = 1 -> Bezier0_value_at(c, t)
      [] Len(c) = 2 -> Bezier1_value_at(c, t)
      [] Len(c) = 3 -> Bezier2_value_at(c, t)
      [] Len(c) = 4 -> Bezier3_value_at(c, t)

Bezier_tangent_at(c, t) ==
    CASE Len(c) = 1 -> Bezier0_tangent_at(c, t)
      [] Len(c) = 2 -> Bezier1_tangent_at(c, t)
      [] Len(c) = 3 -> Bezier2_tangent_at(c, t)
      [] Len(c) = 4 -> Bezier3_tangent_at(c, t)

Bezier_start_point(c) == c[1]

Bezier_end_point(c) == c[Len(c)]

\* ------------------------------------------- estimate_length (degree 2, 3)
\* The bounds each call computes from its own control points.
Bezier2_min(c) == distance(c[1], c[2])

Bezier2_max(c) == FAdd(distance(c[1], c[2]), distance(c[2], c[3]))

Bezier3_min(c) == distance(c[1], c[4])

Bezier3_max(c) == FAdd(FAdd(distance(c[1], c[2]), distance(c[2], c[3])), distance(c[3], c[4]))

\* The midpoint split: <<b1, b2>>
Bezier2_split(c) ==
    LET m01 == scale(add(c[1], c[2]), Half)
        m12 == scale(add(c[2], c[3]), Half)
        m == scale(add(m01, m12), Half)
    IN  << <<c[1], m01, m>>, <<m, m12, c[3]>> >>

\* faulty variant: b1 takes the middle average m12 where the construction has m012
Bezier3_split_m12(c) ==
    LET m01 == scale(add(c[1], c[2]), Half)
        m12 == scale(add(c[2], c[3]), Half)
        m23 == scale(add(c[3], c[4]), Half)
        m012 == scale(add(m01, m12), Half)
        m123 == scale(add(m12, m23), Half)
        m == scale(add(m012, m123), Half)
    IN  << <<c[1], m01, m12, m>>, <<m, m123, m23, c[4]>> >>

Bezier3_split(c) ==
    LET m01 == scale(add(c[1], c[2]), Half)
        m12 == scale(add(c[2], c[3]), Half)
        m23 == scale(add(c[3], c[4]), Half)
        m012 == scale(add(m01, m12), Half)
        m123 == scale(add(m12, m23), Half)
        m == scale(add(m012, m123), Half)
    IN  << <<c[1], m01, m012, m>>, <<m, m123, m23, c[4]>> >>

\* The branch a call takes: "zero", "leaf" (one-step estimate) or "split"
Branch(min, max, prec) ==
    IF FEq(max, Zero) THEN "zero"
    ELSE IF FLt(FDiv(FSub(max, min), max), prec) THEN "leaf"
    ELSE "split"

Bezier2_branch(c, prec) == Branch(Bezier2_min(c), Bezier2_max(c), prec)

Bezier3_branch(c, prec) == Branch(Bezier3_min(c), Bezier3_max(c), prec)

\* What a call that does not split returns
Estimate(min, max) == FMul(FAdd(min, max), Half)

Precisions == {Norm(k, 4) : k \in 1..MaxPrecNum} \cup {Inf}

\* ------------------------------------------------------------ SmoothArray
\* data: Vec<F> is a sequence; data[k] of the code is data[k + 1] here.
\* A panic (unwrap of None, index out of bounds) is the value Panic.
Panic == <<"panic">>

with_steps_count(steps_count) == [k \in 1..steps_count |-> Zero]

len(data) == FromInt(Len(data))

last_index(data) == FSub(len(data), One)

to_array_index(data, index) == FMul(index, last_index(data))

\* faulty variant: the lower sample is returned, without interpolation
value_at_scaled_index_floor(data, i0) ==
    LET i == FClamp(i0, Zero, last_index(data))
        i1 == ToUsize(FFloor(i))
    IN  IF i1 = None \/ i1 >= Len(data) THEN Panic ELSE data[i1 + 1]

value_at_scaled_index(data, i0) ==
    LET i == FClamp(i0, Zero, last_index(data))
        f == FFract(i)
        i1 == ToUsize(FFloor(i))
        i2 == ToUsize(FCeil(i))
    IN  IF i1 = None \/ i2 = None \/ i1 >= Len(data) \/ i2 >= Len(data) THEN Panic
        ELSE LET v1 == data[i1 + 1]
                 v2 == data[i2 + 1]
             IN  FAdd(v1, FMul(FSub(v2, v1), f))

SmoothArray_value_at(data, index) ==
    value_at_scaled_index(data, to_array_index(data, index))

\* faulty variant: the finite difference is not normalised back into position units
SmoothArray_tangent_at_unscaled(data, index) ==
    LET i == to_array_index(data, index)
        i1 == FMax(FSub(i, One), Zero)
        i2 == FMin(FAdd(i, One), last_index(data))
        v1 == value_at_scaled_index(data, i1)
        v2 == value_at_scaled_index(data, i2)
        dl == FSub(i2, i1)
    IN  IF v1 = Panic \/ v2 = Panic THEN Panic ELSE FDiv(FSub(v2, v1), dl)

SmoothArray_tangent_at(data, index) ==
    LET i == to_array_index(data, index)
        i1 == FMax(FSub(i, One), Zero)
        i2 == FMin(FAdd(i, One), last_index(data))
        v1 == value_at_scaled_index(data, i1)
        v2 == value_at_scaled_index(data, i2)
        dl == FDiv(FSub(i2, i1), last_index(data))
    IN  IF v1 = Panic \/ v2 = Panic THEN Panic ELSE FDiv(FSub(v2, v1), dl)

\* the while loop of line: writes data[i], data[i + 1], ... while i <= max_i
RECURSIVE line_loop(_, _, _, _, _, _, _)
line_loop(data, i, max_i, i1, idi, v1, v2) ==
    IF ~FLe(i, max_i) THEN data
    ELSE LET f == FMul(FSub(i, i1), idi)
             v == FAdd(FMul(v1, FSub(One, f)), FMul(v2, f))
             k == ToUsize(i)
         IN  IF k = None \/ k >= Len(data) THEN Panic
             ELSE line_loop([data EXCEPT ![k + 1] = v], FAdd(i, One), max_i, i1, idi, v1, v2)

\* faulty variant: the loop stops at the index of i2, not at the end of the data
line_to_i2(data, a, b) ==
    LET i1 == to_array_index(data, a[1])
        i2 == to_array_index(data, b[1])
        idi == FDiv(One, FSub(i2, i1))
    IN  line_loop(data, FCeil(i1), i2, i1, idi, a[2], b[2])

line(data, a, b) ==
    LET i1 == to_array_index(data, a[1])
        i2 == to_array_index(data, b[1])
        idi == FDiv(One, FSub(i2, i1))
        max_i == FMax(i2, FSub(len(data), One))
    IN  line_loop(data, FCeil(i1), max_i, i1, idi, a[2], b[2])

\* ------------------------------------------------------------ LinearSpeed
\* the parameters at which new evaluates the inner curve, in order
sample_ts(steps_count) ==
    LET inverted_steps == FDiv(One, FromInt(steps_count))
    IN  <<Zero>> \o [i \in 1..steps_count |-> FMul(FromInt(i), inverted_steps)]

\* the for loop of new: t_by_offset after the samples ts[i..] are added
RECURSIVE sample_loop(_, _, _, _, _, _)
sample_loop(curve, ts, i, last_point, total_length, t_by_offset) ==
    IF i > Len(ts) THEN t_by_offset
    ELSE LET t == ts[i]
             point == Bezier_value_at(curve, t)
             segment_length == distance(last_point, point)
             tl == FAdd(total_length, segment_length)
         IN  sample_loop(curve, ts, i + 1, point, tl, Append(t_by_offset, <<tl, t>>))

\* t_by_offset.windows(2).for_each(line)
RECURSIVE windows_loop(_, _, _, _)
windows_loop(table, t_by_offset, w, inverted_length) ==
    IF w + 1 > Len(t_by_offset) \/ table = Panic THEN table
    ELSE LET w1 == t_by_offset[w]
             w2 == t_by_offset[w + 1]
         IN  windows_loop(line(table, <<FMul(w1[1], inverted_length), w1[2]>>,
                                      <<FMul(w2[1], inverted_length), w2[2]>>),
                          t_by_offset, w + 1, inverted_length)

LinearSpeed_new(curve, table_size, steps_count) ==
    LET ts == sample_ts(steps_count)
        t_by_offset == sample_loop(curve, ts, 2, Bezier_value_at(curve, ts[1]), Zero,
                                   <<<<Zero, Zero>>>>)
        total_length == t_by_offset[Len(t_by_offset)][1]
        inverted_length == FDiv(One, total_length)
    IN  [curve |-> curve,
         length |-> total_length,
         table |-> windows_loop(with_steps_count(table_size), t_by_offset, 1, inverted_length)]

LinearSpeed_value_at(ls, t) == Bezier_value_at(ls.curve, t)

LinearSpeed_tangent_at(ls, t0) ==
    LET t1 == FClamp(t0, Zero, One)
        t == SmoothArray_value_at(ls.table, t1)
        k == IF t = Panic THEN Panic ELSE SmoothArray_tangent_at(ls.table, t)
    IN  IF k = Panic THEN Panic ELSE scale(Bezier_tangent_at(ls.curve, t), k)

LinearSpeed_start_point(ls) == Bezier_start_point(ls.curve)

LinearSpeed_end_point(ls) == Bezier_end_point(ls.curve)

\* faulty variant: the chord of the whole inner curve instead of the cached length
LinearSpeed_estimate_length_chord(ls, prec) ==
    distance(Bezier_start_point(ls.curve), Bezier_end_point(ls.curve))

LinearSpeed_estimate_length(ls, prec) == ls.length

\* ---------------------------------------------------------- ComposedCurve
\* composed = [last_point, curves]; curves[i] of the code is curves[i + 1] here
ComposedCurve_new(start_point) == [last_point |-> start_point, curves |-> <<>>]

\* faulty variant: the segment is pushed even when point is the last point
line_to_always(cc, point) ==
    [last_point |-> point, curves |-> Append(cc.curves, <<cc.last_point, point>>)]

line_to(cc, point) ==
    IF point # cc.last_point
    THEN [last_point |-> point, curves |-> Append(cc.curves, <<cc.last_point, point>>)]
    ELSE cc

quadratic_to(cc, p1, p2) ==
    IF p1 = p2 /\ p1 = cc.last_point THEN cc
    ELSE [last_point |-> p2, curves |-> Append(cc.curves, <<cc.last_point, p1, p2>>)]

cubic_to(cc, p1, p2, p3) ==
    IF p1 = p2 /\ p2 = p3 /\ p1 = cc.last_point THEN cc
    ELSE [last_point |-> p3, curves |-> Append(cc.curves, <<cc.last_point, p1, p2, p3>>)]

close(cc) ==
    IF cc.curves # <<>> THEN line_to(cc, Bezier_start_point(cc.curves[1])) ELSE cc

\* floor(t * len), fract(t * len) of the clamped t, as value_at and tangent_at compute them
ComposedCurve_scaled(cc, t0) ==
    FMul(FClamp(t0, Zero, One), FromInt(Len(cc.curves)))

\* faulty variant: the segment is evaluated at t * len, not at its fractional part
ComposedCurve_value_at_no_fract(cc, t0) ==
    LET t1 == ComposedCurve_scaled(cc, t0)
        i == ToUsize(FFloor(t1))
    IN  IF i = None THEN Panic
        ELSE IF i = Len(cc.curves)
             THEN (IF i - 1 < 0 THEN Panic ELSE Bezier_end_point(cc.curves[(i - 1) + 1]))
             ELSE (IF i >= Len(cc.curves) THEN Panic ELSE Bezier_value_at(cc.curves[i + 1], t1))

ComposedCurve_value_at(cc, t0) ==
    LET t1 == ComposedCurve_scaled(cc, t0)
        i == ToUsize(FFloor(t1))
        t == FFract(t1)
    IN  IF i = None THEN Panic
        ELSE IF i = Len(cc.curves)
             THEN (IF i - 1 < 0 THEN Panic ELSE Bezier_end_point(cc.curves[(i - 1) + 1]))
             ELSE (IF i >= Len(cc.curves) THEN Panic ELSE Bezier_value_at(cc.curves[i + 1], t))

ComposedCurve_tangent_at(cc, t0) ==
    LET length == FromInt(Len(cc.curves))
        t1 == ComposedCurve_scaled(cc, t0)
        i == ToUsize(FFloor(t1))
        t == FFract(t1)
    IN  IF i = None THEN Panic
        ELSE IF i = Len(cc.curves)
             THEN (IF i - 1 < 0 THEN Panic
                   ELSE scale(Bezier_tangent_at(cc.curves[(i - 1) + 1], One), length))
             ELSE (IF i >= Len(cc.curves) THEN Panic
                   ELSE scale(Bezier_tangent_at(cc.curves[i + 1], t), length))

\* Curve::start_point / end_point: the trait's defaults
ComposedCurve_start_point(cc) == ComposedCurve_value_at(cc, Zero)

ComposedCurve_end_point(cc) == ComposedCurve_value_at(cc, One)

\* ---------------------------------------------------------- CurveIterator
\* iterator = [curve, steps_count, include_last, i]; next returns None as NoItem
NoItem == <<"none">>

CurveIterator_new(curve, steps_count, include_last) ==
    [curve |-> curve, steps_count |-> FromInt(steps_count),
     include_last |-> include_last, i |-> Zero]

into_iter(curve, steps_count) == CurveIterator_new(curve, steps_count, FALSE)

into_iter_inclusive(curve, steps_count) == CurveIterator_new(curve, steps_count, TRUE)

\* faulty variant: the last point is yielded whatever include_last says
CurveIterator_next_inclusive(it) ==
    IF FLt(it.i, it.steps_count) \/ FEq(it.i, it.steps_count)
    THEN LET i == FDiv(it.i, it.steps_count)
         IN  [iterator |-> [it EXCEPT !.i = FAdd(it.i, One)],
              item |-> Bezier_value_at(it.curve, i)]
    ELSE [iterator |-> it, item |-> NoItem]

\* next: the iterator after the call and the item returned
CurveIterator_next(it) ==
    IF FLt(it.i, it.steps_count) \/ (it.include_last /\ FEq(it.i, it.steps_count))
    THEN LET i == FDiv(it.i, it.steps_count)
         IN  [iterator |-> [it EXCEPT !.i = FAdd(it.i, One)],
              item |-> Bezier_value_at(it.curve, i)]
    ELSE [iterator |-> it, item |-> NoItem]

\* ------------------------------------------------------------------ inputs
\* the parameter values queries are made with
QueryTs == {<<-1, 2>>, Zero, <<1, 3>>, <<1, 2>>, <<3, 4>>, One, <<3, 2>>, NaN}

\* the curves LinearSpeed::new is given: segments of degree 0, 1 and 2
InnerCurves == Bezier0s \cup Bezier1s \cup Bezier2s

\* the points given to the ComposedCurve builder
BuilderPoints == {Zero, One}

\* the normalized positions and the values line is called with
Positions == {Zero, Half, One}
Values == {Zero, One}

\* ------------------------------------------------------------------- state
VARIABLES
    bezier,        \* a Bezier segment: the receiver of estimate_length and of the queries
    precision,     \* estimate_length: the precision argument of the outermost call
    frames,        \* pending recursive calls, innermost first: [curve, depth, parent]
    total,         \* sum of the values returned so far by calls that did not split
    splits,        \* number of midpoint splits performed so far
    pc,            \* "idle" | "running" | "done"
    result,        \* value returned by the outermost call, once pc = "done"
    linear_speed,  \* a LinearSpeed: [curve, length, table]
    new_args,      \* the arguments it was constructed with: [table_size, steps_count]
    sampled,       \* the parameters at which new evaluated the inner curve, in order
    composed,      \* a ComposedCurve: [last_point, curves]
    start,         \* the start_point it was constructed with
    iterator,      \* a CurveIterator: [curve, steps_count, include_last, i]
    yielded,       \* the values its next() calls returned so far, in order
    smooth_array,  \* the data of a SmoothArray
    last_line,     \* the last line call made on it: [count, a, b, before]
    query          \* the last query made of the object: [op, arg, value]

est_vars == <<bezier, precision, frames, total, splits, pc, result>>
ls_vars == <<linear_speed, new_args, sampled>>
cc_vars == <<composed, start>>
it_vars == <<iterator, yielded>>
sa_vars == <<smooth_array, last_line>>
vars == <<est_vars, ls_vars, cc_vars, it_vars, sa_vars, query>>

NoQuery == [op |-> "none", arg |-> Zero, value |-> Zero]
Query(op, arg, value) == [op |-> op, arg |-> arg, value |-> value]

EstIdle ==
    /\ precision = Zero /\ frames = <<>> /\ total = Zero /\ splits = 0
    /\ pc = "idle" /\ result = Zero

LsIdle ==
    /\ linear_speed = [curve |-> <<>>, length |-> Zero, table |-> <<>>]
    /\ new_args = [table_size |-> 0, steps_count |-> 0]
    /\ sampled = <<>>

CcIdle == composed = ComposedCurve_new(Zero) /\ start = Zero

ItIdle ==
    /\ iterator = [curve |-> <<>>, steps_count |-> Zero, include_last |-> FALSE, i |-> Zero]
    /\ yielded = <<>>

NoLine == [count |-> 0, a |-> <<Zero, Zero>>, b |-> <<Zero, Zero>>, before |-> <<>>]

SaIdle == smooth_array = <<>> /\ last_line = NoLine

\* ------------------------------------------- the estimate_length recursion
Frame(c, d, parent) == [curve |-> c, depth |-> d, parent |-> parent]

Init ==
    /\ bezier \in Bezier2s \cup Bezier3s
    /\ precision \in Precisions
    /\ frames = <<Frame(bezier, 0, <<>>)>>
    /\ total = Zero
    /\ splits = 0
    /\ pc = "running"
    /\ result = Zero
    /\ LsIdle /\ CcIdle /\ ItIdle /\ SaIdle /\ query = NoQuery

\* One call of the recursion, on the innermost pending segment: it returns
\* zero or the one-step estimate, or it splits and calls itself on b1, then b2.
RunCall(branch, min, max, halves) ==
    LET f == Head(frames) IN
    /\ branch \in {"zero", "leaf"} \/ f.depth < MaxDepth
    /\ CASE branch = "zero" ->
               /\ frames' = Tail(frames)
               /\ UNCHANGED <<total, splits>>
         [] branch = "leaf" ->
               /\ frames' = Tail(frames)
               /\ total' = FAdd(total, Estimate(min, max))
               /\ UNCHANGED splits
         [] branch = "split" ->
               /\ frames' = <<Frame(halves[1], f.depth + 1, f.curve),
                              Frame(halves[2], f.depth + 1, f.curve)>> \o Tail(frames)
               /\ splits' = splits + 1
               /\ UNCHANGED total
    /\ UNCHANGED <<bezier, precision, pc, result, ls_vars, cc_vars, it_vars, sa_vars, query>>

Bezier2_estimate_length ==
    /\ pc = "running" /\ frames # <<>> /\ Len(Head(frames).curve) = 3
    /\ LET c == Head(frames).curve IN
       RunCall(Bezier2_branch(c, precision), Bezier2_min(c), Bezier2_max(c), Bezier2_split(c))

Bezier3_estimate_length ==
    /\ pc = "running" /\ frames # <<>> /\ Len(Head(frames).curve) = 4
    /\ LET c == Head(frames).curve IN
       RunCall(Bezier3_branch(c, precision), Bezier3_min(c), Bezier3_max(c), Bezier3_split(c))

\* The outermost call returns the sum
Return ==
    /\ pc = "running" /\ frames = <<>>
    /\ pc' = "done"
    /\ result' = total
    /\ UNCHANGED <<bezier, precision, frames, total, splits, ls_vars, cc_vars, it_vars, sa_vars, query>>

Next == Bezier2_estimate_length \/ Bezier3_estimate_length \/ Return
Spec == Init /\ [][Next]_vars

\* --------------------------------------------- queries of a Bezier segment
InitBezier ==
    /\ bezier \in Beziers
    /\ EstIdle /\ LsIdle /\ CcIdle /\ ItIdle /\ SaIdle /\ query = NoQuery

AskBezier(op, arg, value) ==
    /\ query' = Query(op, arg, value)
    /\ UNCHANGED <<est_vars, ls_vars, cc_vars, it_vars, sa_vars>>

BezierValueAt == \E t \in QueryTs : AskBezier("value_at", t, Bezier_value_at(bezier, t))

BezierTangentAt == \E t \in QueryTs : AskBezier("tangent_at", t, Bezier_tangent_at(bezier, t))

BezierStartPoint == AskBezier("start_point", Zero, Bezier_start_point(bezier))

BezierEndPoint == AskBezier("end_point", Zero, Bezier_end_point(bezier))

NextBezier == BezierValueAt \/ BezierTangentAt \/ BezierStartPoint \/ BezierEndPoint
SpecBezier == InitBezier /\ [][NextBezier]_vars

\* ------------------------------------------------- queries of a LinearSpeed
InitLinearSpeed ==
    /\ \E curve \in InnerCurves, table_size \in 2..MaxTable, steps_count \in 1..MaxSteps :
          /\ linear_speed = LinearSpeed_new(curve, table_size, steps_count)
          /\ new_args = [table_size |-> table_size, steps_count |-> steps_count]
          /\ sampled = sample_ts(steps_count)
    /\ bezier = <<>> /\ EstIdle /\ CcIdle /\ ItIdle /\ SaIdle /\ query = NoQuery

AskLinearSpeed(op, arg, value) ==
    /\ query' = Query(op, arg, value)
    /\ UNCHANGED <<est_vars, ls_vars, cc_vars, it_vars, sa_vars>>

LinearSpeedValueAt ==
    \E t \in QueryTs : AskLinearSpeed("value_at", t, LinearSpeed_value_at(linear_speed, t))

LinearSpeedTangentAt ==
    \E t \in QueryTs : AskLinearSpeed("tangent_at", t, LinearSpeed_tangent_at(linear_speed, t))

LinearSpeedStartPoint == AskLinearSpeed("start_point", Zero, LinearSpeed_start_point(linear_speed))

LinearSpeedEndPoint == AskLinearSpeed("end_point", Zero, LinearSpeed_end_point(linear_speed))

LinearSpeedEstimateLength ==
    \E prec \in {Half, Inf} :
        AskLinearSpeed("estimate_length", prec, LinearSpeed_estimate_length(linear_speed, prec))

NextLinearSpeed ==
    \/ LinearSpeedValueAt \/ LinearSpeedTangentAt \/ LinearSpeedStartPoint
    \/ LinearSpeedEndPoint \/ LinearSpeedEstimateLength
SpecLinearSpeed == InitLinearSpeed /\ [][NextLinearSpeed]_vars

\* ------------------------------------- building and querying a ComposedCurve
InitComposed ==
    /\ start \in BuilderPoints
    /\ composed = ComposedCurve_new(start)
    /\ bezier = <<>> /\ EstIdle /\ LsIdle /\ ItIdle /\ SaIdle /\ query = NoQuery

Build(cc) ==
    /\ Len(composed.curves) < MaxSegments
    /\ composed' = cc
    /\ query' = NoQuery
    /\ UNCHANGED <<est_vars, ls_vars, start, it_vars, sa_vars>>

LineTo == \E point \in BuilderPoints : Build(line_to(composed, point))

QuadraticTo == \E p1 \in BuilderPoints, p2 \in BuilderPoints : Build(quadratic_to(composed, p1, p2))

CubicTo ==
    \E p1 \in BuilderPoints, p2 \in BuilderPoints, p3 \in BuilderPoints :
        Build(cubic_to(composed, p1, p2, p3))

Close == Build(close(composed))

AskComposed(op, arg, value) ==
    /\ query' = Query(op, arg, value)
    /\ UNCHANGED <<est_vars, ls_vars, cc_vars, it_vars, sa_vars>>

ComposedValueAt ==
    \E t \in QueryTs : AskComposed("value_at", t, ComposedCurve_value_at(composed, t))

ComposedTangentAt ==
    \E t \in QueryTs : AskComposed("tangent_at", t, ComposedCurve_tangent_at(composed, t))

ComposedStartPoint == AskComposed("start_point", Zero, ComposedCurve_start_point(composed))

ComposedEndPoint == AskComposed("end_point", Zero, ComposedCurve_end_point(composed))

NextComposed ==
    \/ LineTo \/ QuadraticTo \/ CubicTo \/ Close
    \/ ComposedValueAt \/ ComposedTangentAt \/ ComposedStartPoint \/ ComposedEndPoint
SpecComposed == InitComposed /\ [][NextComposed]_vars

\* ------------------------------------------------ iterating over a curve
InitIterator ==
    /\ \E curve \in Beziers, steps_count \in 1..MaxSteps :
          iterator \in {into_iter(curve, steps_count), into_iter_inclusive(curve, steps_count)}
    /\ yielded = <<>>
    /\ bezier = <<>> /\ EstIdle /\ LsIdle /\ CcIdle /\ SaIdle /\ query = NoQuery

\* One next() call; calls go on after the iterator is exhausted
IteratorNext ==
    /\ Len(yielded) < MaxSteps + 3
    /\ LET r == CurveIterator_next(iterator) IN
          /\ iterator' = r.iterator
          /\ yielded' = Append(yielded, r.item)
    /\ UNCHANGED <<est_vars, ls_vars, cc_vars, sa_vars, query>>

NextIterator == IteratorNext
SpecIterator == InitIterator /\ [][NextIterator]_vars

\* ------------------------------------- filling and querying a SmoothArray
InitSmoothArray ==
    /\ \E steps_count \in 2..MaxTable : smooth_array = with_steps_count(steps_count)
    /\ last_line = NoLine
    /\ bezier = <<>> /\ EstIdle /\ LsIdle /\ CcIdle /\ ItIdle /\ query = NoQuery

Line ==
    /\ last_line.count < MaxLines
    /\ smooth_array # Panic
    /\ \E i1 \in Positions, i2 \in Positions, v1 \in Values, v2 \in Values :
          /\ FLt(i1, i2)
          /\ smooth_array' = line(smooth_array, <<i1, v1>>, <<i2, v2>>)
          /\ last_line' = [count |-> last_line.count + 1, a |-> <<i1, v1>>,
                           b |-> <<i2, v2>>, before |-> smooth_array]
    /\ query' = NoQuery
    /\ UNCHANGED <<est_vars, ls_vars, cc_vars, it_vars>>

AskSmoothArray(op, arg, value) ==
    /\ smooth_array # Panic
    /\ query' = Query(op, arg, value)
    /\ UNCHANGED <<est_vars, ls_vars, cc_vars, it_vars, sa_vars>>

SmoothArrayValueAt ==
    \E index \in QueryTs :
        AskSmoothArray("value_at", index, SmoothArray_value_at(smooth_array, index))

SmoothArrayTangentAt ==
    \E index \in QueryTs :
        AskSmoothArray("tangent_at", index, SmoothArray_tangent_at(smooth_array, index))

NextSmoothArray == Line \/ SmoothArrayValueAt \/ SmoothArrayTangentAt
SpecSmoothArray == InitSmoothArray /\ [][NextSmoothArray]_vars

\* ================================================================== properties
AllEqual(c) == \A i \in 1..Len(c) : c[i] = c[1]

\* the bounds of the estimate: the chord from the first to the last control
\* point, and the length of the control polygon
min_bound(c) == distance(c[1], c[Len(c)])

RECURSIVE polygon_from(_, _)
polygon_from(c, i) ==
    IF i >= Len(c) THEN Zero ELSE FAdd(distance(c[i], c[i + 1]), polygon_from(c, i + 1))

max_bound(c) == polygon_from(c, 1)

\* C1: for a quadratic or cubic segment whose control points are not all equal
\* and a precision > 0, a call of estimate_length that returns, returns a value
\* in [min_bound, max_bound]: at least the distance from the first to the last
\* control point, at most the length of the control polygon.
C1_EstimateWithinBounds ==
    (pc = "done" /\ ~AllEqual(bezier) /\ FLt(Zero, precision))
        => FLe(min_bound(bezier), result) /\ FLe(result, max_bound(bezier))

\* q is p scaled by a nonzero factor and translated: the vectors from the first
\* control point to the others are proportional, and q is not a single point
Similar(q, p) ==
    /\ Len(q) = Len(p)
    /\ \A i \in 2..Len(p), j \in 2..Len(p) :
          FMul(sub(q[i], q[1]), sub(p[j], p[1])) = FMul(sub(q[j], q[1]), sub(p[i], p[1]))
    /\ ~AllEqual(q)

BranchOf(c, prec) == IF Len(c) = 3 THEN Bezier2_branch(c, prec) ELSE Bezier3_branch(c, prec)

\* C2: the recursion of estimate_length terminates for every quadratic and
\* cubic segment whose control points are not all equal (p0 = p1 # p2 included)
\* and every precision in (0, 1]: every branch reaches a leaf after finitely
\* many splits.  Stated as what a finite run can refute: no call that has to
\* split is made on a segment that is a scaled translate of the segment its
\* caller split.  (The leaf test is a ratio of distances and the split is an
\* average of points, so both commute with scaling and translation: such a
\* call repeats its caller's recursion one level down, and so without end.)
C2_RecursionTerminates ==
    (~AllEqual(bezier) /\ FLt(Zero, precision) /\ FLe(precision, One))
        => \A k \in 1..Len(frames) :
              LET f == frames[k] IN
              ~(/\ f.parent # <<>>
                /\ BranchOf(f.curve, precision) = "split"
                /\ Similar(f.curve, f.parent))

\* C3: the stop rule, for degree 2 and 3 alike, with min the distance from the
\* first to the last control point and max the control polygon length: a call
\* returns 0 when max = 0; else it returns (min + max) / 2 without splitting
\* when (max - min) / max < precision; else it splits at the midpoint and
\* returns the sum of the two halves' estimates.  A precision above 1 never
\* splits.
C3_StopRule ==
    [][(pc = "running" /\ frames # <<>>) =>
          LET c == Head(frames).curve
              min == min_bound(c)
              max == max_bound(c)
              close_enough == FLt(FDiv(FSub(max, min), max), precision)
          IN  /\ FEq(max, Zero) =>
                    frames' = Tail(frames) /\ total' = total /\ splits' = splits
              /\ (~FEq(max, Zero) /\ close_enough) =>
                    /\ frames' = Tail(frames)
                    /\ total' = FAdd(total, FMul(FAdd(min, max), Half))
                    /\ splits' = splits
              /\ (~FEq(max, Zero) /\ ~close_enough) =>
                    /\ splits' = splits + 1
                    /\ total' = total
                    /\ Len(frames') = Len(frames) + 1
              /\ FLt(One, precision) => splits' = 0
      ]_vars

\* C4: for a straight segment p0 # p1 wrapped by LinearSpeed::new with any
\* table_size >= 2 and steps_count >= 1, tangent_at(t) has for every t in
\* [0, 1] the magnitude of the cached length, which is distance(p0, p1).
C4_ConstantSpeed ==
    LET c == linear_speed.curve IN
    (/\ Len(c) = 2 /\ c[1] # c[2]
     /\ query.op = "tangent_at" /\ FLe(Zero, query.arg) /\ FLe(query.arg, One))
        => /\ query.value # Panic
           /\ FAbs(query.value) = linear_speed.length
           /\ linear_speed.length = distance(c[1], c[2])
           /\ LinearSpeed_estimate_length(linear_speed, Inf) = distance(c[1], c[2])

C4_Witness ==
    /\ Len(linear_speed.curve) = 2
    /\ linear_speed.curve[1] # linear_speed.curve[2]
    /\ new_args = [table_size |-> 3, steps_count |-> 2]
    /\ query.op = "tangent_at" /\ query.arg = <<1, 3>>
    /\ FAbs(query.value) = FromInt(3)

\* the chord distance accumulated over the samples j / steps_count, j = 0..k
RECURSIVE cumulative_distance(_, _, _)
cumulative_distance(curve, steps_count, k) ==
    IF k = 0 THEN Zero
    ELSE FAdd(cumulative_distance(curve, steps_count, k - 1),
              distance(Bezier_value_at(curve, Norm(k - 1, steps_count)),
                       Bezier_value_at(curve, Norm(k, steps_count))))

\* (x, y) lies on the polyline through (cumulative_distance_j / total, j / steps_count)
OnPolyline(curve, steps_count, x, y) ==
    LET tot == cumulative_distance(curve, steps_count, steps_count)
        X(j) == FDiv(cumulative_distance(curve, steps_count, j), tot)
        T(j) == Norm(j, steps_count)
    IN  \E j \in 1..steps_count :
           /\ FLe(X(j - 1), x) /\ FLe(x, X(j))
           /\ IF X(j - 1) = X(j) THEN FLe(T(j - 1), y) /\ FLe(y, T(j))
              ELSE y = FAdd(T(j - 1), FDiv(FMul(FSub(T(j), T(j - 1)), FSub(x, X(j - 1))),
                                           FSub(X(j), X(j - 1))))

\* C5: new samples the inner curve at the steps_count + 1 parameters
\* j / steps_count, and when the total chord length is not zero the table holds
\* at every index k the value at k / (table_size - 1) of the polyline through
\* (cumulative_distance_j / total, j / steps_count): table[0] = 0,
\* table[table_size - 1] = 1, and the table is non-decreasing.
C5_TableIsPolyline ==
    LET curve == linear_speed.curve
        table == linear_speed.table
        n == new_args.table_size
        s == new_args.steps_count
    IN  /\ sampled = [j \in 1..(s + 1) |-> Norm(j - 1, s)]
        /\ linear_speed.length # Zero =>
              /\ table # Panic /\ Len(table) = n
              /\ \A k \in 0..(n - 1) : OnPolyline(curve, s, Norm(k, n - 1), table[k + 1])
              /\ table[1] = Zero /\ table[n] = One
              /\ \A k \in 1..(n - 1) : FLe(table[k], table[k + 1])

\* C6: steps_count is the number of points at which the curve is calculated:
\* with 3 steps, at 0, 1/2 and 1; steps_count parameters spaced uniformly over
\* [0, 1], both ends included.
C6_StepsCountPoints ==
    LET s == new_args.steps_count IN
    s >= 2 => sampled = [j \in 1..s |-> Norm(j - 1, s - 1)]

\* C7: the length of a LinearSpeed is the sum of the chord distances between
\* consecutive samples of the inner curve; estimate_length returns it whatever
\* the precision, and no query changes the length or the table.
C7_LengthIsChordSum ==
    /\ linear_speed.length =
          cumulative_distance(linear_speed.curve, new_args.steps_count, new_args.steps_count)
    /\ query.op = "estimate_length" => query.value = linear_speed.length

C7_LengthCached ==
    /\ []C7_LengthIsChordSum
    /\ [][linear_speed' = linear_speed]_vars

C7_Witness ==
    /\ linear_speed.curve = <<Zero, FromInt(2), Zero>>
    /\ new_args.steps_count = 2
    /\ query.op = "estimate_length" /\ query.arg = Half
    /\ query.value = FromInt(2)

\* C8: for a segment of degree 1, 2 or 3, value_at(0) is the first control
\* point (start_point) and value_at(1) the last (end_point); for degree 1,
\* value_at(1/2) is the midpoint of p0 and p1; for degree 0, value_at(t) is the
\* point for every t and tangent_at(t) is the zero vector.
C8_EndPoints ==
    LET c == bezier
        n == Len(c)
    IN  /\ (query.op = "value_at" /\ n >= 2 /\ query.arg = Zero) => query.value = c[1]
        /\ (query.op = "value_at" /\ n >= 2 /\ query.arg = One) => query.value = c[n]
        /\ (query.op = "value_at" /\ n = 2 /\ query.arg = Half) =>
               FAdd(query.value, query.value) = FAdd(c[1], c[2])
        /\ (query.op = "value_at" /\ n = 1) => query.value = c[1]
        /\ (query.op = "tangent_at" /\ n = 1) => query.value = Zero
        /\ query.op = "start_point" => query.value = c[1]
        /\ query.op = "end_point" => query.value = c[n]

C8_Witness ==
    /\ bezier = <<One, FromInt(3)>>
    /\ query = Query("value_at", One, FromInt(3))

\* C9: a ComposedCurve of n >= 1 segments gives each an equal range of t:
\* value_at(t) is segment floor(t * n) at fract(t * n) when 0 <= t < 1, the
\* last segment's end point when t >= 1, the first segment's value at 0 when
\* t < 0; tangent_at selects the same segment and scales its tangent by n.
C9_SegmentSelection ==
    LET curves == composed.curves
        n == Len(curves)
        t == query.arg
        k == (t[1] * n) \div t[2]
        f == Norm((t[1] * n) % t[2], t[2])
    IN  (n >= 1 /\ IsFinite(t) /\ query.op \in {"value_at", "tangent_at"}) =>
           IF query.op = "value_at"
           THEN query.value =
                   (IF FLt(t, Zero) THEN Bezier_value_at(curves[1], Zero)
                    ELSE IF FLt(t, One) THEN Bezier_value_at(curves[k + 1], f)
                    ELSE Bezier_end_point(curves[n]))
           ELSE query.value =
                   FMul(FromInt(n),
                        IF FLt(t, Zero) THEN Bezier_tangent_at(curves[1], Zero)
                        ELSE IF FLt(t, One) THEN Bezier_tangent_at(curves[k + 1], f)
                        ELSE Bezier_tangent_at(curves[n], One))

C9_Witness ==
    /\ composed.curves = << <<Zero, One>>, <<One, Zero, Zero, One>> >>
    /\ query = Query("value_at", <<3, 4>>, <<1, 4>>)

\* C10: no query panics: on every ComposedCurve the builder can produce, the
\* curve with no segments included, value_at(t), tangent_at(t), start_point()
\* and end_point() select a segment in 0..len-1 and never index out of bounds
\* or underflow.
C10_NoQueryPanics ==
    ~IsNaN(query.arg) => query.value # Panic

\* C11: a CurveIterator with steps_count = n >= 1 yields, in order, value_at(k/n)
\* for k = 0..n-1 (into_iter) or k = 0..n (into_iter_inclusive); every later
\* next() returns None.
C11_IteratorYields ==
    iterator.curve # <<>> =>
        LET n == iterator.steps_count[1]
            count == IF iterator.include_last THEN n + 1 ELSE n
        IN  \A j \in 1..Len(yielded) :
                yielded[j] = IF j <= count
                             THEN Bezier_value_at(iterator.curve, Norm(j - 1, n))
                             ELSE NoItem

C11_Witness ==
    /\ iterator.curve = <<Zero, FromInt(2)>>
    /\ iterator.include_last
    /\ yielded = <<Zero, One, FromInt(2), NoItem, NoItem>>

\* ceil of the rational a, on the integers
CeilInt(a) == -((-a[1]) \div a[2])

\* C12: line((i1,v1),(i2,v2)) on n samples, 0 <= i1 < i2 <= 1, writes
\* v1 + (v2 - v1) * (k - i1*(n-1)) / ((i2 - i1)*(n-1)) into every index k from
\* ceil(i1*(n-1)) to n-1, leaves the lower indices unchanged and writes no
\* index outside 0..n-1, whatever earlier calls wrote.
C12_LineFrame ==
    last_line.count > 0 =>
        LET n == Len(last_line.before)
            i1 == last_line.a[1]
            v1 == last_line.a[2]
            i2 == last_line.b[1]
            v2 == last_line.b[2]
            first == CeilInt(Norm(i1[1] * (n - 1), i1[2]))
            at(k) == FAdd(v1, FDiv(FMul(FSub(v2, v1), FSub(FromInt(k), FMul(i1, FromInt(n - 1)))),
                                   FMul(FSub(i2, i1), FromInt(n - 1))))
        IN  /\ smooth_array # Panic
            /\ Len(smooth_array) = n
            /\ \A k \in 0..(n - 1) :
                  smooth_array[k + 1] = IF k >= first THEN at(k) ELSE last_line.before[k + 1]

\* a second call from the middle of a table the first call filled
C12_Witness ==
    /\ last_line.count = 2
    /\ last_line.before = <<Zero, Half, One>>
    /\ last_line.a = <<Half, One>> /\ last_line.b = <<One, Zero>>
    /\ smooth_array = <<Zero, One, Zero>>

\* C13: after a single line((0,a),(1,b)) on a fresh table of n >= 2 samples,
\* value_at(x) = a + (b - a) * x and tangent_at(x) = b - a for every x in [0,1],
\* the boundaries included, and value_at of a position outside [0,1] is the
\* first / last sample.
C13_RoundTrip ==
    (/\ last_line.count = 1
     /\ last_line.a[1] = Zero /\ last_line.b[1] = One
     /\ query.op \in {"value_at", "tangent_at"}
     /\ ~IsNaN(query.arg)) =>
        LET a == last_line.a[2]
            b == last_line.b[2]
            x == query.arg
            inside == FLe(Zero, x) /\ FLe(x, One)
        IN  /\ (query.op = "value_at" /\ inside) =>
                   query.value = FAdd(a, FMul(FSub(b, a), x))
            /\ (query.op = "value_at" /\ FLt(x, Zero)) =>
                   query.value = smooth_array[1] /\ query.value = a
            /\ (query.op = "value_at" /\ FLt(One, x)) =>
                   query.value = smooth_array[Len(smooth_array)] /\ query.value = b
            /\ (query.op = "tangent_at" /\ inside) =>
                   query.value = FSub(b, a)

\* the one-sided difference at the upper boundary of a three-sample table
C13_Witness ==
    /\ last_line.count = 1
    /\ last_line.a = <<Zero, Zero>> /\ last_line.b = <<One, One>>
    /\ Len(smooth_array) = 3
    /\ query = Query("tangent_at", One, One)

\* the parameters s at which a sub-segment is compared with its parent
SplitParams == {t \in QueryTs : ~IsNaN(t) /\ FLe(Zero, t) /\ FLe(t, One)}

\* C14: every midpoint split of estimate_length is an exact de Casteljau
\* subdivision: b1 and b2 have the degree of B, b1 starts at B's first control
\* point, b2 ends at B's last, they meet at B.value_at(1/2), and
\* b1.value_at(s) = B.value_at(s/2), b2.value_at(s) = B.value_at(1/2 + s/2).
C14_SplitIsDeCasteljau ==
    [][splits' = splits + 1 =>
          LET B == Head(frames).curve
              b1 == frames'[1].curve
              b2 == frames'[2].curve
              n == Len(B)
          IN  /\ Len(b1) = n /\ Len(b2) = n
              /\ b1[1] = B[1]
              /\ b2[n] = B[n]
              /\ b1[n] = b2[1]
              /\ b1[n] = Bezier_value_at(B, Half)
              /\ \A s \in SplitParams :
                    /\ Bezier_value_at(b1, s) = Bezier_value_at(B, FMul(s, Half))
                    /\ Bezier_value_at(b2, s) = Bezier_value_at(B, FAdd(Half, FMul(s, Half)))
      ]_vars

\* the first split of the cubic (0, 3, 0, 3)
C14_Witness ==
    /\ bezier = <<Zero, FromInt(3), Zero, FromInt(3)>>
    /\ splits = 1
    /\ Len(frames) = 2
    /\ frames[1].curve = <<Zero, <<3, 2>>, <<3, 2>>, <<3, 2>>>>
    /\ frames[2].curve = <<<<3, 2>>, <<3, 2>>, <<3, 2>>, FromInt(3)>>

\* C15: after any sequence of line_to / quadratic_to / cubic_to / close calls
\* on ComposedCurve::new(start): (1) the first segment starts at start, (2) each
\* segment starts where the previous one ends, (3) last_point is the end of the
\* last segment (start when there is none), (4) a call whose points all equal
\* last_point changes nothing, (5) close() on a non-empty curve makes the last
\* segment end where the first starts, and a second close() adds nothing.
C15_PathContinuity ==
    LET cs == composed.curves
        lp == composed.last_point
        closed == close(composed)
    IN  /\ cs # <<>> => Bezier_start_point(cs[1]) = start
        /\ \A i \in 2..Len(cs) : Bezier_start_point(cs[i]) = Bezier_end_point(cs[i - 1])
        /\ lp = IF cs = <<>> THEN start ELSE Bezier_end_point(cs[Len(cs)])
        /\ line_to(composed, lp) = composed
        /\ quadratic_to(composed, lp, lp) = composed
        /\ cubic_to(composed, lp, lp, lp) = composed
        /\ cs # <<>> =>
              /\ Bezier_end_point(closed.curves[Len(closed.curves)])
                     = Bezier_start_point(closed.curves[1])
              /\ closed.last_point = Bezier_start_point(closed.curves[1])
              /\ close(closed) = closed

\* a quadratic segment from 0 to 1, closed by a line back to 0
C15_Witness ==
    /\ start = Zero
    /\ composed = [last_point |-> Zero, curves |-> << <<Zero, One, One>>, <<One, Zero>> >>]

====
